---- MODULE Spec2Model ----
(***************************************************************************)
(* Model of the sglogger package: the Level ordering and the console       *)
(* provider's filter (interfaces.go, default_provider.go), the fields      *)
(* handler (ExtractFieldsFromContext, MergeFields) and the logger's         *)
(* dispatch path (the twenty logging methods funnelling into writeLog).    *)
(*                                                                         *)
(* Three specifications share the module:                                  *)
(*   Spec           - one goroutine logging at every severity through a    *)
(*                    logger built either way, and the constructing code   *)
(*                    storing into the slice it passed                     *)
(*   SpecConcurrent - NumCallers goroutines inside the logger at once      *)
(*   SpecLevel      - ShouldLog applied to every severity on one provider      *)
(*   SpecFields     - the fields handler on a heap of Fields maps          *)
(***************************************************************************)
EXTENDS Integers, Sequences, FiniteSets, TLC

\* ------------------------------------------------------------------ bounds
\* number of goroutines that call the logger concurrently
NumCallers == 2
\* longest provider list handed to NewLogger
MaxProviders == 2

\* ------------------------------------------------------------------ Level
LevelDebug == 0
LevelInfo == 1
LevelWarn == 2
LevelError == 3
LevelFatal == 4

Levels == {LevelDebug, LevelInfo, LevelWarn, LevelError, LevelFatal}

VARIABLES
  \* --- the logger (Spec)
  ctor,         \* which constructor built the logger
  providers,    \* l.providers: the elements of the slice's backing array
  constructed,  \* the provider sequence handed over at construction
  callerAlias,  \* TRUE when the constructing code still holds the same slice
  mu,           \* l.mu: [readers, writer] of the sync.RWMutex
  pc,           \* per goroutine: where it stands
  call,         \* per goroutine: severity of the method it is in
  idx,          \* per goroutine: providers the range loop has finished with
  writes,       \* per goroutine: providers whose Write this call invoked
  lastErr,      \* per goroutine: position in writes of the last failed Write
  proc,         \* the process: running, or how it ended
  \* --- one console provider (SpecLevel)
  prov,         \* the fmtProvider value
  prov0,        \* the fmtProvider value as constructed
  answers,      \* what ShouldLog answered per severity
  \* --- the fields handler (SpecFields)
  heap,         \* the allocated Fields maps, by reference
  last          \* the last call made, its arguments and result

vars == <<ctor, providers, constructed, callerAlias, mu, pc, call, idx, writes,
          lastErr, proc, prov, prov0, answers, heap, last>>

loggerVars == <<ctor, providers, constructed, callerAlias, mu, pc, call, idx,
                writes, lastErr, proc>>
levelVars == <<prov, prov0, answers>>
fieldsVars == <<heap, last>>

\* the goroutines of a behaviour
Callers == DOMAIN pc

\* -------------------------------------------------------------- fmtProvider
\* NewFmtProvider: the provider keeps a copy of its configuration
NewFmtProvider(config) == [config |-> config]

\* ProviderConfig{Level: lv}
ProviderConfig(lv) == [Level |-> lv]

ShouldLogStrict(p, level) == level > p.config.Level

\* fmtProvider.ShouldLog
ShouldLog(p, level) == level >= p.config.Level

\* the minimum severities of the providers handed to NewLogger in the model
PoolLevels == {LevelDebug, LevelWarn, LevelFatal}

\* the providers a caller can build: one per minimum severity
ProviderPool == {NewFmtProvider(ProviderConfig(lv)) : lv \in PoolLevels}

\* sequences over S of length 0..n
SeqUpTo(S, n) == UNION {[1..k -> S] : k \in 0..n}


\* ------------------------------------------------------------------ logger
\* sync.RWMutex with nobody holding it
RWMutexZero == [readers |-> 0, writer |-> FALSE]

\* NewLoggerDefault: one console provider in a slice of the logger's own
NewLoggerDefault(config) == <<NewFmtProvider(config)>>

\* NewLogger: the variadic slice itself becomes l.providers
NewLogger(ps) == ps

\* the parts of the state the logger specifications leave alone
OthersParked ==
  /\ prov = NewFmtProvider(ProviderConfig(LevelDebug))
  /\ prov0 = prov
  /\ answers = <<>>
  /\ heap = <<>>
  /\ last = <<>>

\* a logger just built over `ps`, with goroutines `gs` about to use it
LoggerInit(gs, ps) ==
  /\ providers = ps
  /\ constructed = ps
  /\ mu = RWMutexZero
  /\ pc = [t \in gs |-> "idle"]
  /\ call = [t \in gs |-> LevelDebug]
  /\ idx = [t \in gs |-> 0]
  /\ writes = [t \in gs |-> <<>>]
  /\ lastErr = [t \in gs |-> 0]
  /\ proc = [how |-> "running", by |-> 0]
  /\ OthersParked

Init ==
  /\ ctor \in {"NewLoggerDefault", "NewLogger"}
  /\ IF ctor = "NewLoggerDefault"
       THEN /\ \E lv \in Levels : LoggerInit({1}, NewLoggerDefault(ProviderConfig(lv)))
            /\ callerAlias = FALSE
       ELSE /\ \E ps \in SeqUpTo(ProviderPool, MaxProviders) : LoggerInit({1}, NewLogger(ps))
            /\ callerAlias \in BOOLEAN

\* what a provider's Write can do to its caller: return nil, return an error,
\* or panic. The console provider always returns nil.
WriteOutcomes == IF ctor = "NewLoggerDefault" THEN {"nil"} ELSE {"nil", "error", "panic"}

\* a logging method is entered: Debug.., Info.., Warning.., Error.., Fatal..
\* all format the message and call writeLog with their severity
Call(t, level) ==
  /\ proc.how = "running"
  /\ pc[t] \in {"idle", "recovered"}
  /\ pc' = [pc EXCEPT ![t] = "rlock"]
  /\ call' = [call EXCEPT ![t] = level]
  /\ idx' = [idx EXCEPT ![t] = 0]
  /\ writes' = [writes EXCEPT ![t] = <<>>]
  /\ lastErr' = [lastErr EXCEPT ![t] = 0]
  /\ UNCHANGED <<ctor, providers, constructed, callerAlias, mu, proc>>
  /\ UNCHANGED levelVars /\ UNCHANGED fieldsVars

LockExclusive(t) ==
  /\ proc.how = "running"
  /\ pc[t] = "rlock"
  /\ ~mu.writer /\ mu.readers = 0
  /\ mu' = [mu EXCEPT !.readers = @ + 1]
  /\ pc' = [pc EXCEPT ![t] = "loop"]
  /\ UNCHANGED <<ctor, providers, constructed, callerAlias, call, idx, writes, lastErr, proc>>
  /\ UNCHANGED levelVars /\ UNCHANGED fieldsVars

\* writeLog: l.mu.RLock(); a read lock waits only for a writer
RLock(t) ==
  /\ proc.how = "running"
  /\ pc[t] = "rlock"
  /\ ~mu.writer
  /\ mu' = [mu EXCEPT !.readers = @ + 1]
  /\ pc' = [pc EXCEPT ![t] = "loop"]
  /\ UNCHANGED <<ctor, providers, constructed, callerAlias, call, idx, writes, lastErr, proc>>
  /\ UNCHANGED levelVars /\ UNCHANGED fieldsVars

RangeStepNoFilter(t) ==
  /\ proc.how = "running"
  /\ pc[t] = "loop"
  /\ IF idx[t] < Len(providers)
       THEN /\ writes' = [writes EXCEPT ![t] = Append(@, providers[idx[t] + 1])]
            /\ pc' = [pc EXCEPT ![t] = "inWrite"]
            /\ idx' = idx
       ELSE /\ pc' = [pc EXCEPT ![t] = "ret"]
            /\ UNCHANGED <<idx, writes>>
  /\ UNCHANGED <<ctor, providers, constructed, callerAlias, mu, call, lastErr, proc>>
  /\ UNCHANGED levelVars /\ UNCHANGED fieldsVars

\* writeLog: one turn of `for _, provider := range l.providers`: the loop ends,
\* or ShouldLog is asked and, when it says yes, Write is called
RangeStep(t) ==
  /\ proc.how = "running"
  /\ pc[t] = "loop"
  /\ IF idx[t] < Len(providers)
       THEN LET provider == providers[idx[t] + 1] IN
            IF ShouldLog(provider, call[t])
              THEN /\ writes' = [writes EXCEPT ![t] = Append(@, provider)]
                   /\ pc' = [pc EXCEPT ![t] = "inWrite"]
                   /\ idx' = idx
              ELSE /\ idx' = [idx EXCEPT ![t] = @ + 1]
                   /\ UNCHANGED <<pc, writes>>
       ELSE /\ pc' = [pc EXCEPT ![t] = "ret"]
            /\ UNCHANGED <<idx, writes>>
  /\ UNCHANGED <<ctor, providers, constructed, callerAlias, mu, call, lastErr, proc>>
  /\ UNCHANGED levelVars /\ UNCHANGED fieldsVars

WriteReturnStopOnError(t, outcome) ==
  /\ proc.how = "running"
  /\ pc[t] = "inWrite"
  /\ outcome \in WriteOutcomes
  /\ CASE outcome = "nil" ->
            /\ idx' = [idx EXCEPT ![t] = @ + 1]
            /\ pc' = [pc EXCEPT ![t] = "loop"]
            /\ UNCHANGED lastErr
       [] outcome = "error" ->
            /\ lastErr' = [lastErr EXCEPT ![t] = Len(writes[t])]
            /\ pc' = [pc EXCEPT ![t] = "ret"]
            /\ UNCHANGED idx
       [] outcome = "panic" ->
            /\ pc' = [pc EXCEPT ![t] = "panicking"]
            /\ UNCHANGED <<idx, lastErr>>
  /\ UNCHANGED <<ctor, providers, constructed, callerAlias, mu, call, writes, proc>>
  /\ UNCHANGED levelVars /\ UNCHANGED fieldsVars

\* writeLog: provider.Write comes back; its error result is dropped and the
\* loop goes on, a panic leaves the loop and unwinds writeLog
WriteReturn(t, outcome) ==
  /\ proc.how = "running"
  /\ pc[t] = "inWrite"
  /\ outcome \in WriteOutcomes
  /\ CASE outcome = "nil" ->
            /\ idx' = [idx EXCEPT ![t] = @ + 1]
            /\ pc' = [pc EXCEPT ![t] = "loop"]
            /\ UNCHANGED lastErr
       [] outcome = "error" ->
            /\ idx' = [idx EXCEPT ![t] = @ + 1]
            /\ lastErr' = [lastErr EXCEPT ![t] = Len(writes[t])]
            /\ pc' = [pc EXCEPT ![t] = "loop"]
       [] outcome = "panic" ->
            /\ pc' = [pc EXCEPT ![t] = "panicking"]
            /\ UNCHANGED <<idx, lastErr>>
  /\ UNCHANGED <<ctor, providers, constructed, callerAlias, mu, call, writes, proc>>
  /\ UNCHANGED levelVars /\ UNCHANGED fieldsVars

RUnlockOnReturnOnly(t) ==
  /\ proc.how = "running"
  /\ pc[t] \in {"ret", "panicking"}
  /\ mu' = IF pc[t] = "ret" THEN [mu EXCEPT !.readers = @ - 1] ELSE mu
  /\ pc' = [pc EXCEPT ![t] = IF pc[t] = "ret" THEN "after" ELSE "unwound"]
  /\ UNCHANGED <<ctor, providers, constructed, callerAlias, call, idx, writes, lastErr, proc>>
  /\ UNCHANGED levelVars /\ UNCHANGED fieldsVars

\* writeLog: `defer l.mu.RUnlock()` runs when writeLog returns and when a
\* panic unwinds it
DeferredRUnlock(t) ==
  /\ proc.how = "running"
  /\ pc[t] \in {"ret", "panicking"}
  /\ mu' = [mu EXCEPT !.readers = @ - 1]
  /\ pc' = [pc EXCEPT ![t] = IF pc[t] = "ret" THEN "after" ELSE "unwound"]
  /\ UNCHANGED <<ctor, providers, constructed, callerAlias, call, idx, writes, lastErr, proc>>
  /\ UNCHANGED levelVars /\ UNCHANGED fieldsVars

\* the statement after writeLog: the Fatal methods call log.Fatal / log.Fatalf,
\* which ends the process; the others return to their caller
AfterWriteLog(t) ==
  /\ proc.how = "running"
  /\ pc[t] = "after"
  /\ IF call[t] = LevelFatal
       THEN /\ proc' = [how |-> "log.Fatal", by |-> t]
            /\ UNCHANGED <<pc, call, idx, writes, lastErr>>
       ELSE /\ pc' = [pc EXCEPT ![t] = "idle"]
            /\ call' = [call EXCEPT ![t] = LevelDebug]
            /\ idx' = [idx EXCEPT ![t] = 0]
            /\ writes' = [writes EXCEPT ![t] = <<>>]
            /\ lastErr' = [lastErr EXCEPT ![t] = 0]
            /\ UNCHANGED proc
  /\ UNCHANGED <<ctor, providers, constructed, callerAlias, mu>>
  /\ UNCHANGED levelVars /\ UNCHANGED fieldsVars

\* a panic out of Write has left the logging method, skipping its remaining
\* statements: the caller recovers it, or the runtime ends the process
PanicPropagates(t, recovers) ==
  /\ proc.how = "running"
  /\ pc[t] = "unwound"
  /\ IF recovers
       THEN /\ pc' = [pc EXCEPT ![t] = "recovered"]
            /\ idx' = [idx EXCEPT ![t] = 0]
            /\ writes' = [writes EXCEPT ![t] = <<>>]
            /\ lastErr' = [lastErr EXCEPT ![t] = 0]
            /\ UNCHANGED proc
       ELSE /\ proc' = [how |-> "panic", by |-> t]
            /\ UNCHANGED <<pc, idx, writes, lastErr>>
  /\ UNCHANGED <<ctor, providers, constructed, callerAlias, mu, call>>
  /\ UNCHANGED levelVars /\ UNCHANGED fieldsVars

\* the code that called NewLogger(cfg, fh, ps...) stores into its slice ps,
\* whose backing array l.providers shares; done while no log call runs
CallerStore(i, p) ==
  /\ proc.how = "running"
  /\ callerAlias
  /\ \A t \in Callers : pc[t] \in {"idle", "recovered"}
  /\ i \in 1..Len(providers)
  /\ p # providers[i]
  /\ providers' = [providers EXCEPT ![i] = p]
  /\ UNCHANGED <<ctor, constructed, callerAlias, mu, pc, call, idx, writes, lastErr, proc>>
  /\ UNCHANGED levelVars /\ UNCHANGED fieldsVars

Next ==
  \/ \E t \in Callers, level \in Levels : Call(t, level)
  \/ \E t \in Callers : RLock(t)
  \/ \E t \in Callers : RangeStep(t)
  \/ \E t \in Callers, outcome \in {"nil", "error", "panic"} : WriteReturn(t, outcome)
  \/ \E t \in Callers : DeferredRUnlock(t)
  \/ \E t \in Callers : AfterWriteLog(t)
  \/ \E t \in Callers, recovers \in BOOLEAN : PanicPropagates(t, recovers)
  \/ \E i \in 1..MaxProviders, p \in ProviderPool : CallerStore(i, p)

Spec == Init /\ [][Next]_vars

\* ------------------------------------------------- several goroutines at once
\* the severities the goroutines of SpecConcurrent log at
ConcurrentLevels == {LevelInfo, LevelFatal}

\* the providers of SpecConcurrent let every one of these calls pass
ConcurrentPool == {NewFmtProvider(ProviderConfig(LevelInfo))}

InitConcurrent ==
  /\ ctor = "NewLogger"
  /\ callerAlias = FALSE
  /\ \E ps \in SeqUpTo(ConcurrentPool, MaxProviders) : LoggerInit(1..NumCallers, NewLogger(ps))

NextConcurrent ==
  \/ \E t \in Callers, level \in ConcurrentLevels : Call(t, level)
  \/ \E t \in Callers : RLock(t)
  \/ \E t \in Callers : RangeStep(t)
  \/ \E t \in Callers, outcome \in {"nil", "error", "panic"} : WriteReturn(t, outcome)
  \/ \E t \in Callers : DeferredRUnlock(t)
  \/ \E t \in Callers : AfterWriteLog(t)
  \/ \E t \in Callers, recovers \in BOOLEAN : PanicPropagates(t, recovers)

SpecConcurrent == InitConcurrent /\ [][NextConcurrent]_vars

\* ------------------------------------------------------- claims on the logger
\* goroutine t is inside writeLog's provider loop, a Write included
InDispatch(t) == pc[t] \in {"loop", "inWrite"}

\* goroutine t holds the read lock: RLock done, deferred RUnlock not yet run
HoldsRLock(t) == pc[t] \in {"loop", "inWrite", "ret", "panicking"}

\* goroutine t has entered the loop of its current call
PastRLock(t) == pc[t] \in {"loop", "inWrite", "ret", "panicking", "after", "unwound"}

\* goroutine t has called Write on the provider the loop stands at
AtWrite(t) == pc[t] \in {"inWrite", "panicking", "unwound"}

\* the providers whose ShouldLog goroutine t's call has asked so far
Asked(t) == SubSeq(providers, 1, IF AtWrite(t) THEN idx[t] + 1 ELSE idx[t])

\* C1: the Write calls of one log invocation are exactly the providers whose
\* ShouldLog said yes, each once, in list order; and an invocation no Write
\* panicked in has asked every provider of the list, whatever errors the
\* Writes returned.
C1_FanOutExact ==
  \A t \in Callers :
    PastRLock(t) =>
      LET Passes(p) == ShouldLog(p, call[t]) IN
      /\ writes[t] = SelectSeq(Asked(t), Passes)
      /\ pc[t] \in {"ret", "after"} => idx[t] = Len(providers)

\* C1 witness: a finished invocation over two providers whose first Write
\* returned an error and whose second Write was still made
C1_Witness ==
  \E t \in Callers :
    /\ pc[t] = "after"
    /\ Len(providers) = 2
    /\ writes[t] = providers
    /\ lastErr[t] = 1

\* C2: a provider whose minimum severity exceeds the call's severity is never
\* written by that call, and every other provider the loop has reached is:
\* the writes number exactly the reached providers with minimum <= severity.
C2_FilteredNeverWritten ==
  \A t \in Callers :
    PastRLock(t) =>
      /\ \A i \in 1..Len(writes[t]) : writes[t][i].config.Level <= call[t]
      /\ Len(writes[t]) =
           Cardinality({k \in 1..Len(Asked(t)) : providers[k].config.Level <= call[t]})

\* C2 witness: a finished invocation that skipped its first provider, whose
\* minimum is above the call's severity, and wrote its second
C2_Witness ==
  \E t \in Callers :
    /\ pc[t] = "after"
    /\ Len(providers) = 2
    /\ providers[1].config.Level > call[t]
    /\ writes[t] = <<providers[2]>>

\* C3: a Fatal-family call never hands control back to its caller, and when it
\* is what ended the process, every provider of the list had been reached by
\* the dispatch loop before (asked, and written if it passed the filter).
C3_FatalTerminatesAfterDispatch ==
  \A t \in Callers :
    call[t] = LevelFatal =>
      /\ pc[t] # "recovered"
      /\ (proc.how # "running" /\ proc.by = t) => Len(Asked(t)) = Len(providers)

\* C8: the sequence writeLog iterates is the sequence given at construction.
C8_ProviderListFixed == providers = constructed

\* C9: while one invocation is in the provider loop, an invocation waiting at
\* RLock can take it.
C9_ReadLockNeverWaits ==
  \A t \in Callers : \A u \in Callers \ {t} :
    (proc.how = "running" /\ InDispatch(t) /\ pc[u] = "rlock") => ENABLED RLock(u)

\* C9 witness: two invocations inside a provider's Write at the same moment
C9_Witness ==
  \E t \in Callers : \E u \in Callers \ {t} : pc[t] = "inWrite" /\ pc[u] = "inWrite"

\* C10: the read locks held number the writeLog invocations between their
\* RLock and their return or unwinding; none is held when none is in progress.
C10_ReadLocksMatchInvocations ==
  /\ mu.readers = Cardinality({t \in Callers : HoldsRLock(t)})
  /\ ~mu.writer

\* C10 witness: an invocation left by a panic in Write, another done normally,
\* and no read lock held
C10_Witness ==
  /\ \E t \in Callers : pc[t] \in {"unwound", "recovered"}
  /\ \E t \in Callers : pc[t] = "after" /\ lastErr[t] > 0
  /\ mu.readers = 0

\* ------------------------------------------- one console provider, every level
\* the logger's state while a specification is about something else
LoggerParked ==
  /\ ctor = "none"
  /\ providers = <<>>
  /\ constructed = <<>>
  /\ callerAlias = FALSE
  /\ mu = RWMutexZero
  /\ pc = <<>>
  /\ call = <<>>
  /\ idx = <<>>
  /\ writes = <<>>
  /\ lastErr = <<>>
  /\ proc = [how |-> "running", by |-> 0]

InitLevel ==
  /\ \E lv \in Levels : prov = NewFmtProvider(ProviderConfig(lv))
  /\ prov0 = prov
  /\ answers = [a \in Levels |-> "unasked"]
  /\ heap = <<>>
  /\ last = <<>>
  /\ LoggerParked

\* p.ShouldLog(ctx, level) is called: it reads p.config and assigns nothing
AskShouldLog(level) ==
  /\ answers' = [answers EXCEPT ![level] = IF ShouldLog(prov, level) THEN "yes" ELSE "no"]
  /\ UNCHANGED <<prov, prov0>>
  /\ UNCHANGED loggerVars /\ UNCHANGED fieldsVars

NextLevel == \E level \in Levels : AskShouldLog(level)

SpecLevel == InitLevel /\ [][NextLevel]_vars

\* C4: with Debug < Info < Warn < Error < Fatal, a console provider of minimum
\* severity b answers ShouldLog(a) with yes exactly when a >= b, and asking
\* leaves the provider as it was constructed.
C4_ShouldLogIsThreshold ==
  /\ LevelDebug < LevelInfo /\ LevelInfo < LevelWarn
  /\ LevelWarn < LevelError /\ LevelError < LevelFatal
  /\ prov = prov0
  /\ \A a \in Levels :
       answers[a] # "unasked" => (answers[a] = "yes" <=> a >= prov0.config.Level)

\* C4 witness: a provider of minimum Warn asked about all five severities
C4_Witness ==
  /\ prov0.config.Level = LevelWarn
  /\ answers = [a \in Levels |-> IF a \in {LevelWarn, LevelError, LevelFatal} THEN "yes" ELSE "no"]

\* ---------------------------------------------------------- the fields handler
\* A Fields value is a reference: 0 is the nil map, i > 0 is the map heap[i].
\* A map is written as a function on FieldKeys, Absent marking a missing key.
FieldKeys == {"error", "trace_id", "user"}
FieldVals == {"x", "y"}
ErrTexts == {"boom"}
Absent == "<absent>"
NilFields == 0

\* make(Fields)
MakeFields == [k \in FieldKeys |-> Absent]

KeysOf(m) == {k \in FieldKeys : m[k] # Absent}

\* the maps a caller can hand in
CallerMaps == [FieldKeys -> FieldVals \cup {Absent}]

\* the entries of the map behind reference r; ranging over a nil map yields none
Entries(h, r) == IF r = NilFields THEN MakeFields ELSE h[r]

\* maps.Copy(dst, src): every entry of src is stored into dst
MapsCopy(dst, src) == [k \in FieldKeys |-> IF src[k] # Absent THEN src[k] ELSE dst[k]]

\* a context: nil, or one answering Value(TraceIDKey) with nothing, a string
\* or a value of another type
NoValue == [type |-> "none", v |-> ""]
CtxNil == [isNil |-> TRUE, traceID |-> NoValue]
Contexts ==
  {CtxNil} \cup
  {[isNil |-> FALSE, traceID |-> tv] :
     tv \in {NoValue, [type |-> "string", v |-> "T"], [type |-> "int", v |-> "7"]}}

MergeFieldsBaseWins(h, fields1, fields2) ==
  LET result == MapsCopy(MapsCopy(MakeFields, Entries(h, fields2)), Entries(h, fields1))
  IN [heap |-> Append(h, result), ref |-> Len(h) + 1]

\* fieldsHandler.MergeFields: a new map, fields1 copied in, then fields2
MergeFields(h, fields1, fields2) ==
  LET result == MapsCopy(MapsCopy(MakeFields, Entries(h, fields1)), Entries(h, fields2))
  IN [heap |-> Append(h, result), ref |-> Len(h) + 1]

ExtractKeepsExistingTraceID(h, ctx, fields) ==
  IF ctx.isNil
    THEN [heap |-> h, ref |-> fields]
    ELSE LET copied == MapsCopy(MakeFields, Entries(h, fields))
             result == IF ctx.traceID.type = "string" /\ copied["trace_id"] = Absent
                         THEN [copied EXCEPT !["trace_id"] = ctx.traceID.v]
                         ELSE copied
         IN [heap |-> Append(h, result), ref |-> Len(h) + 1]

\* fieldsHandler.ExtractFieldsFromContext: fields itself under a nil context,
\* else a new map with fields copied in and trace_id set from a string value
ExtractFieldsFromContext(h, ctx, fields) ==
  IF ctx.isNil
    THEN [heap |-> h, ref |-> fields]
    ELSE LET copied == MapsCopy(MakeFields, Entries(h, fields))
             result == IF ctx.traceID.type = "string"
                         THEN [copied EXCEPT !["trace_id"] = ctx.traceID.v]
                         ELSE copied
         IN [heap |-> Append(h, result), ref |-> Len(h) + 1]

\* Fields{"error": err.Error()}
ErrorFields(h, err) ==
  [heap |-> Append(h, [MakeFields EXCEPT !["error"] = err]), ref |-> Len(h) + 1]

AllFieldsErrorUnder(h, err, fields) ==
  LET e == ErrorFields(h, err) IN MergeFields(e.heap, e.ref, fields)

\* allFields := l.mergeFields(fields, Fields{"error": err.Error()})
AllFields(h, err, fields) ==
  LET e == ErrorFields(h, err) IN MergeFields(e.heap, fields, e.ref)

NoCall ==
  [op |-> "none", level |-> LevelDebug, ctx |-> CtxNil, err |-> "",
   in1 |-> NilFields, in2 |-> NilFields, out |-> NilFields, written |-> NilFields,
   pre |-> <<>>]

InitFields ==
  /\ \E m1 \in CallerMaps, m2 \in CallerMaps : heap = <<m1, m2>>
  /\ last = NoCall
  /\ prov = NewFmtProvider(ProviderConfig(LevelDebug))
  /\ prov0 = prov
  /\ answers = <<>>
  /\ LoggerParked

\* a caller merges two of its Fields values
CallMergeFields(fields1, fields2) ==
  /\ last.op = "none"
  /\ LET r == MergeFields(heap, fields1, fields2) IN
       /\ heap' = r.heap
       /\ last' = [NoCall EXCEPT !.op = "MergeFields", !.in1 = fields1, !.in2 = fields2,
                                 !.out = r.ref, !.pre = heap]
  /\ UNCHANGED loggerVars /\ UNCHANGED levelVars

\* writeLog's first step on the fields it was given:
\* allFields := l.extractFieldsFromContext(ctx, fields)
CallExtract(ctx, fields) ==
  /\ last.op = "none"
  /\ LET r == ExtractFieldsFromContext(heap, ctx, fields) IN
       /\ heap' = r.heap
       /\ last' = [NoCall EXCEPT !.op = "Extract", !.ctx = ctx, !.in1 = fields,
                                 !.out = r.ref, !.written = r.ref, !.pre = heap]
  /\ UNCHANGED loggerVars /\ UNCHANGED levelVars

\* DebugErrWithFields .. FatalErrWithFields: merge the explicit fields with the
\* error's one-entry map, hand the result to writeLog, which extracts from ctx
\* and passes the outcome to the providers
ErrWithFields(level, ctx, err, fields) ==
  /\ last.op = "none"
  /\ LET a == AllFields(heap, err, fields)
         w == ExtractFieldsFromContext(a.heap, ctx, a.ref)
     IN /\ heap' = w.heap
        /\ last' = [NoCall EXCEPT !.op = "ErrWithFields", !.level = level, !.ctx = ctx,
                                  !.err = err, !.in1 = fields, !.out = a.ref,
                                  !.written = w.ref, !.pre = heap]
  /\ UNCHANGED loggerVars /\ UNCHANGED levelVars

\* the references a caller holds at the start: nil and its own two maps
CallerRefs == {NilFields, 1, 2}

NextFields ==
  \/ \E f1 \in CallerRefs, f2 \in CallerRefs : CallMergeFields(f1, f2)
  \/ \E ctx \in Contexts, f \in CallerRefs : CallExtract(ctx, f)
  \/ \E level \in Levels, ctx \in Contexts, err \in ErrTexts, f \in CallerRefs :
       ErrWithFields(level, ctx, err, f)

SpecFields == InitFields /\ [][NextFields]_vars

\* every map that existed before the last call still holds what it held
InputsUntouched == \A i \in 1..Len(last.pre) : heap[i] = last.pre[i]

\* r refers to a map the last call allocated
IsNew(r) == r > Len(last.pre) /\ r <= Len(heap)

\* C5: the fields an ...ErrWithFields method hands to writeLog hold the error's
\* text under "error", whatever the explicit fields said there, and every other
\* explicit entry as given, and nothing else.
C5_ErrorOverlaysExplicitFields ==
  last.op = "ErrWithFields" =>
    LET explicit == Entries(last.pre, last.in1)
        given == Entries(heap, last.out)
    IN /\ last.out # NilFields
       /\ given["error"] = last.err
       /\ \A k \in FieldKeys \ {"error"} : given[k] = explicit[k]
       /\ InputsUntouched

\* C5 witness: explicit fields that set "error" and another key, passed with an
\* error of a different text
C5_Witness ==
  /\ last.op = "ErrWithFields"
  /\ last.in1 # NilFields
  /\ Entries(last.pre, last.in1)["error"] \in FieldVals
  /\ Entries(last.pre, last.in1)["user"] \in FieldVals
  /\ Entries(last.pre, last.in1)["error"] # last.err

\* C6: Merge(base, overlay) returns a new, non-nil map whose keys are the union
\* of both key sets, holding overlay's value where overlay has the key and
\* base's value elsewhere; the maps that existed before are unchanged.
C6_MergeIsRightBiasedUnion ==
  last.op = "MergeFields" =>
    LET base == Entries(last.pre, last.in1)
        overlay == Entries(last.pre, last.in2)
        result == Entries(heap, last.out)
    IN /\ last.out # NilFields /\ IsNew(last.out)
       /\ KeysOf(result) = KeysOf(base) \cup KeysOf(overlay)
       /\ \A k \in KeysOf(overlay) : result[k] = overlay[k]
       /\ \A k \in KeysOf(base) \ KeysOf(overlay) : result[k] = base[k]
       /\ InputsUntouched

\* C6 witness: a merge where one key is only in base, one only in overlay and
\* one in both with different values
C6_Witness ==
  /\ last.op = "MergeFields"
  /\ LET base == Entries(last.pre, last.in1)
         overlay == Entries(last.pre, last.in2)
     IN /\ KeysOf(base) = {"error", "user"}
        /\ KeysOf(overlay) = {"user", "trace_id"}
        /\ base["user"] # overlay["user"]

\* C7: Extract under a nil context returns the very fields it was given and
\* allocates nothing; otherwise it returns a new map with every entry of fields
\* and, exactly when the context holds a string id, trace_id set to that id
\* over whatever fields had there; the maps that existed before are unchanged.
C7_ExtractAddsTraceID ==
  last.op = "Extract" =>
    LET fields == Entries(last.pre, last.in1)
        result == Entries(heap, last.out)
    IN /\ InputsUntouched
       /\ last.ctx.isNil => (last.out = last.in1 /\ heap = last.pre)
       /\ ~last.ctx.isNil =>
            /\ last.out # NilFields /\ IsNew(last.out)
            /\ \A k \in FieldKeys \ {"trace_id"} : result[k] = fields[k]
            /\ result["trace_id"] =
                 IF last.ctx.traceID.type = "string"
                   THEN last.ctx.traceID.v
                   ELSE fields["trace_id"]

\* C7 witness: fields that already carry a trace_id, extracted under a context
\* holding another id
C7_Witness ==
  /\ last.op = "Extract"
  /\ last.ctx.traceID.type = "string"
  /\ last.in1 # NilFields
  /\ Entries(last.pre, last.in1)["trace_id"] \in FieldVals

====
